---- MODULE Spec2Model ----
(***************************************************************************)
(* Flight schedule generator: ScheduleGenerator.generateSchedule driving   *)
(* DailyScheduler, LegSelector, ReturnPlanner, TimingService, BiasService  *)
(* and the randomization helpers.                                          *)
(*                                                                         *)
(* Instants are local-time minutes counted from midnight of the start      *)
(* date; a calendar date is the day index  t \div 1440.  A Math.random()   *)
(* draw is the rational k / DrawDen with k in 0 .. DrawDen-1.  Selection   *)
(* weights are integers: haul weights in tenths, route weights in          *)
(* thousandths.                                                            *)
(***************************************************************************)
EXTENDS Integers, Sequences, FiniteSets, TLC

\* ---------------------------------------------------------------- bounds
MaxDays == 3
DrawDen == 4

\* ------------------------------------------------------------- constants
MinutesPerDay == 1440
ShortHaulMax == 180
MediumHaulMax == 360
ForcedReturnDelay == 60
WeightUnit == 1000
HaulWeightFloor == 1

\* destination_repetition_bias = 1, in tenths
StrictBias == 10

Base == "B"
Airports == {"B", "X", "Y", "J", "LHR", "CDG", "JFK"}
HaulTypes == {"short", "medium", "long"}
NoHaul == "none"
Draws == 0 .. (DrawDen - 1)

NoTime == -1
NoRoute == [route_id |-> 0]
NoLeg == [route_id |-> 0]
NoDay == [day |-> 0]
NoFlight == [route |-> NoRoute, departureTime |-> NoTime]
Thrown == "Error"

\* ----------------------------------------------------------- route tables
Route(id, dep, arr, dur, iata, name, country) ==
  [route_id |-> id, departure_iata |-> dep, arrival_iata |-> arr,
   duration_min |-> dur, airline_iata |-> iata, airline_name |-> name,
   arrival_country |-> country]

R1 == Route(1, "B", "X", 120, "AA", "Alpha", "France")
R2 == Route(2, "X", "B", 120, "AA", "Alpha", "United Kingdom")
R3 == Route(3, "B", "Y", 150, "AA", "Alpha", "Italy")
R4 == Route(4, "Y", "B", 150, "AA", "Alpha", "United Kingdom")
R5 == Route(5, "X", "Y", 100, "AA", "Alpha", "Italy")
R6 == Route(6, "B", "J", 720, "AA", "Alpha", "United States")
R7 == Route(7, "J", "B", 720, "AA", "Alpha", "United Kingdom")
R8 == Route(8, "X", "B", 400, "AA", "Alpha", "United Kingdom")
R9 == Route(9, "X", "B", 240, "ZZ", "Zeta", "United Kingdom")
R10 == Route(10, "B", "Y", 300, "AA", "Alpha", "Italy")
R11 == Route(11, "Y", "B", 300, "AA", "Alpha", "United Kingdom")
R12 == Route(12, "B", "J", 370, "AA", "Alpha", "United States")
R13 == Route(13, "J", "B", 370, "AA", "Alpha", "United Kingdom")
R14 == Route(14, "B", "Y", 380, "AA", "Alpha", "Italy")
R15 == Route(15, "Y", "B", 380, "AA", "Alpha", "United Kingdom")
R16 == Route(16, "B", "J", 60, "AA", "Alpha", "United States")
R17 == Route(17, "J", "B", 60, "AA", "Alpha", "United Kingdom")
\* routes whose airline code and airline name belong to different carriers
R18 == Route(18, "B", "X", 110, "ZZ", "Alpha", "France")
R19 == Route(19, "B", "Y", 130, "AA", "Zeta", "Italy")
R20 == Route(20, "B", "J", 90, "ZZ", "Zeta", "United States")

\* the four routes of the LHR scenarios
S1 == Route(101, "LHR", "CDG", 80, "AA", "Alpha", "France")
S2 == Route(102, "CDG", "LHR", 85, "AA", "Alpha", "United Kingdom")
S3 == Route(103, "LHR", "JFK", 480, "AA", "Alpha", "United States")
S4 == Route(104, "JFK", "LHR", 420, "AA", "Alpha", "United Kingdom")
ScenarioRoutes == <<S1, S2, S3, S4>>

RouteTables ==
  { <<R1, R2, R3, R4, R5>>,
    <<R1, R2, R6, R7, R10, R11>>,
    <<R6, R7, R1, R8>>,
    <<R1, R9, R3>>,
    <<R2, R4>>,
    <<R12, R13, R14, R15>>,
    <<R1, R2, R3, R4, R16, R17>>,
    ScenarioRoutes }

\* --------------------------------------------------------- configurations
\* 06:00-23:00, a window shorter than one hour, and the whole day
OperatingHoursChoices == { [start |-> 360, end |-> 1380],
                           [start |-> 360, end |-> 405],
                           [start |-> 0, end |-> 1439],
                           [start |-> 1380, end |-> 1439] }

HaulPreferenceChoices ==
  { [short |-> s, medium |-> m, long |-> l] : s \in BOOLEAN, m \in BOOLEAN, l \in BOOLEAN }

Configurations ==
  [ airline_iata : {"AA"},
    airline_name : {"alpha"},
    start_airport : {Base, "LHR"},
    days : 1 .. MaxDays,
    haul_preferences : HaulPreferenceChoices,
    haul_weighting : { [short |-> 2, medium |-> 3, long |-> 5] },
    prefer_single_leg_day_ratio : {4},
    operating_hours : OperatingHoursChoices,
    turnaround_time_minutes : {30},
    preferred_countries : { {"France"} },
    preferred_regions : { {"EU"} },
    minimum_rest_hours_between_long_haul : {8},
    destination_repetition_bias : {0, StrictBias},
    repetition_mode : BOOLEAN ]

\* config .. repetitionReturnLeg: one generateSchedule call (the GeneratorState
\* object, the loop counter and the locals of generateDailySchedule);
\* fnCall, fnResult: one call of a pure helper function and its result;
\* suspended: the parameters and locals of a second generateSchedule call on
\* the same ScheduleGenerator that is waiting at an await
VARIABLES config, routes, pc, day, state,
          daySchedule, haulType, originalDate,
          repetitionOutboundLeg, repetitionReturnLeg,
          fnCall, fnResult, suspended

vars == <<config, routes, pc, day, state,
          daySchedule, haulType, originalDate,
          repetitionOutboundLeg, repetitionReturnLeg,
          fnCall, fnResult, suspended>>

runVars == <<config, routes, pc, day, state,
             daySchedule, haulType, originalDate,
             repetitionOutboundLeg, repetitionReturnLeg>>

NoCall == [op |-> "none"]
NoResult == [done |-> FALSE]
NoFrame == [call |-> 0]

\* ------------------------------------------------------- date/time helper
DateOf(t) == t \div MinutesPerDay
TimeOfDay(t) == t % MinutesPerDay
isSameDay(t1, t2) == DateOf(t1) = DateOf(t2)
StartOfOperations(date, cfg) == date * MinutesPerDay + cfg.operating_hours.start

\* -------------------------------------------------------- RouteClassifier
\* variant of classifyRoute with strict comparisons
classifyRoute_Strict(durationMinutes) ==
  IF durationMinutes < ShortHaulMax THEN "short"
  ELSE IF durationMinutes < MediumHaulMax THEN "medium"
  ELSE "long"

classifyRoute(durationMinutes) ==
  IF durationMinutes <= ShortHaulMax THEN "short"
  ELSE IF durationMinutes <= MediumHaulMax THEN "medium"
  ELSE "long"

RoutesFrom(table, airport) ==
  SelectSeq(table, LAMBDA r : r.departure_iata = airport)

\* ---------------------------------------------------------- TimingService
isWithinOperatingHours(time, operatingHours) ==
  /\ TimeOfDay(time) >= operatingHours.start
  /\ TimeOfDay(time) <= operatingHours.end

calculateArrivalTime(departureTime, durationMinutes) ==
  departureTime + durationMinutes

RECURSIVE ShortestFrom(_, _, _)
ShortestFrom(rs, i, best) ==
  IF i > Len(rs) THEN best
  ELSE IF best = NoRoute \/ rs[i].duration_min < best.duration_min
       THEN ShortestFrom(rs, i + 1, rs[i])
       ELSE ShortestFrom(rs, i + 1, best)

findEarliestReturnFlight(currentTime, currentAirport, baseAirport, rs, cfg) ==
  IF currentAirport = baseAirport THEN NoFlight
  ELSE
    LET routesToBase == SelectSeq(rs, LAMBDA r :
                          r.departure_iata = currentAirport /\ r.arrival_iata = baseAirport)
        turned == currentTime + cfg.turnaround_time_minutes
        earliestPossibleDeparture ==
          IF isWithinOperatingHours(turned, cfg.operating_hours) THEN turned
          ELSE StartOfOperations(DateOf(turned) + 1, cfg)
        bestRoute ==
          IF isWithinOperatingHours(earliestPossibleDeparture, cfg.operating_hours)
          THEN ShortestFrom(routesToBase, 1, NoRoute)
          ELSE NoRoute
    IN IF Len(routesToBase) = 0 THEN NoFlight
       ELSE IF bestRoute = NoRoute THEN NoFlight
       ELSE [route |-> bestRoute, departureTime |-> earliestPossibleDeparture]

\* ---------------------------------------------------- randomizationHelper
RECURSIVE SumWeights(_, _)
SumWeights(items, n) ==
  IF n = 0 THEN 0 ELSE SumWeights(items, n - 1) + items[n].weight

RECURSIVE WalkCumulative(_, _, _, _)
WalkCumulative(items, i, k, totalWeight) ==
  IF i > Len(items) THEN items[1].item
  ELSE IF k * totalWeight <= SumWeights(items, i) * DrawDen THEN items[i].item
  ELSE WalkCumulative(items, i + 1, k, totalWeight)

\* items: sequence of [item, weight]; k: the Math.random() draw k / DrawDen
weightedRandomSelection(items, k) ==
  LET totalWeight == SumWeights(items, Len(items))
  IN IF Len(items) = 0 THEN Thrown
     ELSE IF totalWeight = 0
          THEN items[((k * Len(items)) \div DrawDen) + 1].item
          ELSE WalkCumulative(items, 1, k, totalWeight)

HaulOrder == <<"short", "medium", "long">>

pickHaulType(preferences, weightings, k) ==
  LET allowedTypes == SelectSeq(HaulOrder, LAMBDA t : preferences[t])
      weightedItems == [i \in 1 .. Len(allowedTypes) |->
                          [item |-> allowedTypes[i], weight |-> weightings[allowedTypes[i]]]]
  IN IF Len(allowedTypes) = 0 THEN Thrown
     ELSE IF Len(allowedTypes) = 1 THEN allowedTypes[1]
     ELSE weightedRandomSelection(weightedItems, k)

\* ------------------------------------------------------------ BiasService
getContinent(country) ==
  IF country \in {"United States", "Canada", "Mexico"} THEN "NA"
  ELSE IF country \in {"United Kingdom", "France", "Germany", "Italy", "Spain", "Portugal"} THEN "EU"
  ELSE ""

Max(a, b) == IF a >= b THEN a ELSE b

\* F applied to the value of v, with v evaluated once (a local constant of the
\* source: `const x = v; ... F(x)`)
Bind(v, F(_)) == CHOOSE r \in { F(x) : x \in {v} } : TRUE

\* variant of the route weight that applies the country and region multipliers
\* whatever the repetition bias
RouteWeight_UngatedCountry(route, cfg, visitedAirports, preferredAirports) ==
  LET b == cfg.destination_repetition_bias
      isPreferred == route.arrival_iata \in preferredAirports
      w0 == WeightUnit
      w1 == IF preferredAirports # {} /\ b > 0
            THEN IF isPreferred THEN (w0 * (10 + b)) \div 10
                 ELSE IF b = 10 THEN 0 ELSE w0
            ELSE w0
      w2 == IF route.arrival_country \in cfg.preferred_countries
            THEN (w1 * 14) \div 10 ELSE w1
      w3 == IF getContinent(route.arrival_country) \in cfg.preferred_regions
            THEN (w2 * 12) \div 10 ELSE w2
      visitCount == visitedAirports[route.arrival_iata]
      w4 == IF ~isPreferred /\ visitCount > 0
            THEN (w3 * Max(3, 10 - visitCount)) \div 10 ELSE w3
  IN w4

\* weight of one route before the all-zero reset, in thousandths
RouteWeight(route, cfg, visitedAirports, preferredAirports) ==
  LET b == cfg.destination_repetition_bias
      isPreferred == route.arrival_iata \in preferredAirports
      w0 == WeightUnit
      w1 == IF preferredAirports # {} /\ b > 0
            THEN IF isPreferred THEN (w0 * (10 + b)) \div 10
                 ELSE IF b = 10 THEN 0 ELSE w0
            ELSE w0
      w2 == IF b < 10 /\ route.arrival_country \in cfg.preferred_countries
            THEN (w1 * 14) \div 10 ELSE w1
      w3 == IF b < 10 /\ getContinent(route.arrival_country) \in cfg.preferred_regions
            THEN (w2 * 12) \div 10 ELSE w2
      visitCount == visitedAirports[route.arrival_iata]
      w4 == IF ~isPreferred /\ visitCount > 0
            THEN (w3 * Max(3, 10 - visitCount)) \div 10 ELSE w3
  IN w4

applyBiasing(rs, cfg, visitedAirports, preferredAirports) ==
  LET weighted == [i \in 1 .. Len(rs) |->
                     [route |-> rs[i],
                      weight |-> RouteWeight(rs[i], cfg, visitedAirports, preferredAirports)]]
      noPreferredRoute == \A i \in 1 .. Len(rs) : weighted[i].weight <= 0
  IN IF preferredAirports # {} /\ cfg.destination_repetition_bias = 10 /\ noPreferredRoute
     THEN [i \in 1 .. Len(rs) |-> [route |-> rs[i], weight |-> WeightUnit]]
     ELSE weighted

\* ------------------------------------------------- shared state mutations
incrementAirportVisit(st, airport) ==
  [st EXCEPT !.visited_airports[airport] = @ + 1]

\* the four assignments made after every leg that is flown
AfterLeg(st, leg) ==
  incrementAirportVisit(
    [st EXCEPT !.current_airport = leg.arrival_airport,
               !.current_time = leg.arrival_time,
               !.visited_routes = @ \cup {leg.route_id}],
    leg.arrival_airport)

ToLower(name) ==
  IF name \in {"Alpha", "ALPHA", "alpha"} THEN "alpha"
  ELSE IF name \in {"Zeta", "zeta"} THEN "zeta"
  ELSE name

\* ------------------------------------------------------------ LegSelector
LegSelectorBuildFlightLeg(route, st, cfg) ==
  LET departureTime == st.current_time + cfg.turnaround_time_minutes
  IN [departure_airport |-> route.departure_iata,
      arrival_airport |-> route.arrival_iata,
      departure_time |-> departureTime,
      arrival_time |-> calculateArrivalTime(departureTime, route.duration_min),
      haul_type |-> classifyRoute(route.duration_min),
      duration_min |-> route.duration_min,
      route_id |-> route.route_id,
      airline_iata |-> IF cfg.airline_iata # "" THEN cfg.airline_iata ELSE route.airline_iata,
      airline_name |-> IF cfg.airline_name # "" THEN cfg.airline_name ELSE route.airline_name]

AirlineMatches(route, cfg) ==
  \/ cfg.airline_iata # "" /\ route.airline_iata = cfg.airline_iata
  \/ cfg.airline_name # "" /\ ToLower(route.airline_name) = ToLower(cfg.airline_name)

calculateValidDepartureWindows(rs, st, cfg) ==
  SelectSeq(rs, LAMBDA r :
    isWithinOperatingHours(st.current_time + cfg.turnaround_time_minutes,
                           cfg.operating_hours))

\* variant of the route selection of selectLeg that does not exclude the
\* routes already flown
SelectRoute_NoVisitedFilter(st, cfg, haul, table, isReturnLeg, k) ==
  LET filteredRoutes == SelectSeq(RoutesFrom(table, st.current_airport), LAMBDA r :
                          /\ classifyRoute(r.duration_min) = haul
                          /\ AirlineMatches(r, cfg)
                          /\ (isReturnLeg => r.arrival_iata = cfg.start_airport))
      validRoutes == calculateValidDepartureWindows(filteredRoutes, st, cfg)
      biasedRoutes == applyBiasing(validRoutes, cfg, st.visited_airports,
                                   st.preferred_airports)
  IN IF Len(validRoutes) = 0 THEN NoRoute
     ELSE weightedRandomSelection(
            [i \in 1 .. Len(validRoutes) |->
               [item |-> validRoutes[i], weight |-> biasedRoutes[i].weight]], k)

\* the route drawn by selectLeg, or NoRoute
SelectRoute(st, cfg, haul, table, isReturnLeg, k) ==
  LET availableRoutes == RoutesFrom(table, st.current_airport)
      filteredRoutes == SelectSeq(availableRoutes, LAMBDA r :
                          /\ classifyRoute(r.duration_min) = haul
                          /\ AirlineMatches(r, cfg)
                          /\ (isReturnLeg => r.arrival_iata = cfg.start_airport)
                          /\ r.route_id \notin st.visited_routes)
      biasedRoutes == applyBiasing(filteredRoutes, cfg, st.visited_airports,
                                   st.preferred_airports)
      validRoutes == calculateValidDepartureWindows(filteredRoutes, st, cfg)
      weightOf(r) == LET i == CHOOSE j \in 1 .. Len(biasedRoutes) :
                                 biasedRoutes[j].route.route_id = r.route_id
                     IN biasedRoutes[i].weight
      strictMode == cfg.destination_repetition_bias = 10
      hasPreferredRoute ==
        /\ strictMode
        /\ st.preferred_airports # {}
        /\ \E i \in 1 .. Len(validRoutes) :
              validRoutes[i].arrival_iata \in st.preferred_airports
      resetWeights == strictMode /\ st.preferred_airports # {} /\ ~hasPreferredRoute
      validBiasedRoutes == [i \in 1 .. Len(validRoutes) |->
                              [item |-> validRoutes[i],
                               weight |-> IF resetWeights THEN WeightUnit
                                          ELSE weightOf(validRoutes[i])]]
  IN IF Len(filteredRoutes) = 0 THEN NoRoute
     ELSE IF Len(validRoutes) = 0 THEN NoRoute
     ELSE weightedRandomSelection(validBiasedRoutes, k)

selectLeg(st, cfg, haul, table, isReturnLeg, isFirstLegOfDay, k) ==
  LET selectedRoute == SelectRoute(st, cfg, haul, table, isReturnLeg, k)
  IN IF selectedRoute = NoRoute THEN NoLeg
     ELSE LegSelectorBuildFlightLeg(selectedRoute, st, cfg)

\* variant of the preferred-airport update that ignores isFirstLegOfDay
selectLegPreferred_AnyLeg(st, cfg, haul, table, isReturnLeg, isFirstLegOfDay, k) ==
  LET selectedRoute == SelectRoute(st, cfg, haul, table, isReturnLeg, k)
  IN IF selectedRoute # NoRoute /\ cfg.destination_repetition_bias > 0
     THEN st.preferred_airports \cup {selectedRoute.arrival_iata}
     ELSE st.preferred_airports

\* preferred_airports after selectLeg
selectLegPreferred(st, cfg, haul, table, isReturnLeg, isFirstLegOfDay, k) ==
  LET selectedRoute == SelectRoute(st, cfg, haul, table, isReturnLeg, k)
  IN IF selectedRoute # NoRoute /\ isFirstLegOfDay /\ cfg.destination_repetition_bias > 0
     THEN st.preferred_airports \cup {selectedRoute.arrival_iata}
     ELSE st.preferred_airports

\* ---------------------------------------------------------- ReturnPlanner
\* variant of ReturnPlanner.buildFlightLeg that copies the operating airline
\* of the route
ReturnPlannerBuildFlightLeg_RouteAirline(route, departureTime, cfg) ==
  [departure_airport |-> route.departure_iata,
   arrival_airport |-> route.arrival_iata,
   departure_time |-> departureTime,
   arrival_time |-> calculateArrivalTime(departureTime, route.duration_min),
   haul_type |-> classifyRoute(route.duration_min),
   duration_min |-> route.duration_min,
   route_id |-> route.route_id,
   airline_iata |-> route.airline_iata,
   airline_name |-> route.airline_name]

ReturnPlannerBuildFlightLeg(route, departureTime, cfg) ==
  [departure_airport |-> route.departure_iata,
   arrival_airport |-> route.arrival_iata,
   departure_time |-> departureTime,
   arrival_time |-> calculateArrivalTime(departureTime, route.duration_min),
   haul_type |-> classifyRoute(route.duration_min),
   duration_min |-> route.duration_min,
   route_id |-> route.route_id,
   airline_iata |-> IF cfg.airline_iata # "" THEN cfg.airline_iata ELSE route.airline_iata,
   airline_name |-> IF cfg.airline_name # "" THEN cfg.airline_name ELSE route.airline_name]

\* variant of ReturnCandidates that keeps every route to base, whatever its haul type
ReturnCandidates_AnyHaul(st, cfg, table, haul) ==
  SelectSeq(RoutesFrom(table, st.current_airport), LAMBDA r :
              r.arrival_iata = cfg.start_airport)

\* candidate routes of planReturnToBase / planForcedReturn; haul may be NoHaul
ReturnCandidates(st, cfg, table, haul) ==
  LET availableRoutes == RoutesFrom(table, st.current_airport)
      byHaul == IF haul # NoHaul /\ cfg.haul_preferences[haul]
                THEN SelectSeq(availableRoutes, LAMBDA r :
                       classifyRoute(r.duration_min) = haul)
                ELSE SelectSeq(availableRoutes, LAMBDA r :
                       cfg.haul_preferences[classifyRoute(r.duration_min)])
  IN SelectSeq(byHaul, LAMBDA r : r.arrival_iata = cfg.start_airport)

planReturnToBase(st, cfg, table, haul) ==
  IF st.current_airport = cfg.start_airport THEN NoLeg
  ELSE
    LET routesToBase == ReturnCandidates(st, cfg, table, haul)
        returnFlight == findEarliestReturnFlight(st.current_time, st.current_airport,
                                                 cfg.start_airport, routesToBase, cfg)
    IN IF Len(routesToBase) = 0 THEN NoLeg
       ELSE IF returnFlight = NoFlight THEN NoLeg
       ELSE ReturnPlannerBuildFlightLeg(returnFlight.route, returnFlight.departureTime, cfg)

planForcedReturn(st, cfg, table, dayNumber, haul) ==
  IF st.current_airport = cfg.start_airport THEN NoDay
  ELSE
    LET routesToBase == ReturnCandidates(st, cfg, table, haul)
        nextDay == st.current_date + 1
        morningTime == StartOfOperations(nextDay, cfg) + ForcedReturnDelay
        shortestRoute == ShortestFrom(routesToBase, 1, NoRoute)
    IN IF Len(routesToBase) = 0 THEN NoDay
       ELSE IF shortestRoute = NoRoute THEN NoDay
       ELSE [day |-> dayNumber,
             date |-> nextDay,
             legs |-> <<ReturnPlannerBuildFlightLeg(shortestRoute, morningTime, cfg)>>,
             overnight_location |-> cfg.start_airport,
             notes |-> <<"Forced return to base">>]

\* --------------------------------------------------------- DailyScheduler
LongHaulBlocked(st) ==
  st.long_haul_block_until # NoTime /\ st.current_time < st.long_haul_block_until

\* variant of selectHaulType without the catch block
selectHaulType_NoFallback(st, cfg, k) ==
  pickHaulType([t \in HaulTypes |->
                  IF t = "long" /\ LongHaulBlocked(st) THEN FALSE
                  ELSE cfg.haul_preferences[t]],
               cfg.haul_weighting, k)

\* variant of selectHaulType that does not consult the rest block
selectHaulType_IgnoreBlock(st, cfg, k) ==
  LET firstTry == pickHaulType(cfg.haul_preferences, cfg.haul_weighting, k)
  IN IF firstTry # Thrown THEN firstTry
     ELSE pickHaulType([t \in HaulTypes |-> TRUE],
                       [t \in HaulTypes |-> Max(cfg.haul_weighting[t], HaulWeightFloor)], k)

\* k is the single Math.random() draw the call can consume
selectHaulType(st, cfg, k) ==
  LET currentPreferences ==
        [t \in HaulTypes |->
           IF t = "long" /\ LongHaulBlocked(st) THEN FALSE ELSE cfg.haul_preferences[t]]
      firstTry == pickHaulType(currentPreferences, cfg.haul_weighting, k)
      neverBlocked == st.long_haul_block_until = NoTime
      tempPreferences == [t \in HaulTypes |-> IF t = "long" THEN neverBlocked ELSE TRUE]
      tempWeightings ==
        [t \in HaulTypes |->
           IF t = "long" /\ ~neverBlocked THEN 0
           ELSE Max(cfg.haul_weighting[t], HaulWeightFloor)]
  IN IF firstTry # Thrown THEN firstTry
     ELSE IF \A t \in HaulTypes : ~currentPreferences[t]
          THEN pickHaulType(tempPreferences, tempWeightings, k)
          ELSE "short"

selectDayStyle(cfg, k) ==
  IF cfg.repetition_mode THEN "single-destination"
  ELSE IF k * 10 < cfg.prefer_single_leg_day_ratio * DrawDen THEN "single-destination"
  ELSE "multi-leg"

TripResult(ok, msg, ls, st) ==
  [success |-> ok, message |-> msg, legs |-> ls, st |-> st]

\* planTrip from the return-leg step on: st2 and legs2 are the state and the
\* legs after the outbound leg(s)
planTripReturn(st2, legs2, cfg, haul, table) ==
  IF st2.current_airport # cfg.start_airport
  THEN Bind(planReturnToBase(st2, cfg, table, haul), LAMBDA returnLeg :
         IF returnLeg # NoLeg
         THEN TripResult(TRUE, "Trip planned successfully",
                         Append(legs2, returnLeg), AfterLeg(st2, returnLeg))
         ELSE TripResult(FALSE, "Cannot return to base", legs2, st2))
  ELSE TripResult(TRUE, "Trip planned successfully", legs2, st2)

\* planTrip from the optional second leg on: st1 is the state after firstLeg
planTripOnward(st1, firstLeg, cfg, haul, table, tripStyle, k2) ==
  IF tripStyle = "multi-leg" /\ haul # "long" /\ ~cfg.repetition_mode
  THEN Bind(selectLeg(st1, cfg, haul, table, FALSE, FALSE, k2), LAMBDA secondLeg :
         IF secondLeg # NoLeg
         THEN Bind(AfterLeg([st1 EXCEPT !.preferred_airports =
                               selectLegPreferred(st1, cfg, haul, table, FALSE, FALSE, k2)],
                            secondLeg), LAMBDA st2 :
                planTripReturn(st2, <<firstLeg, secondLeg>>, cfg, haul, table))
         ELSE planTripReturn(st1, <<firstLeg>>, cfg, haul, table))
  ELSE planTripReturn(st1, <<firstLeg>>, cfg, haul, table)

planTrip(st, cfg, haul, table, kStyle, k1, k2) ==
  Bind(selectLeg(st, cfg, haul, table, FALSE, FALSE, k1), LAMBDA firstLeg :
    IF firstLeg = NoLeg
    THEN TripResult(FALSE, "No suitable routes available for first leg", <<>>, st)
    ELSE Bind(AfterLeg([st EXCEPT !.preferred_airports =
                              selectLegPreferred(st, cfg, haul, table, FALSE, FALSE, k1)],
                       firstLeg), LAMBDA st1 :
           planTripOnward(st1, firstLeg, cfg, haul, table,
                          selectDayStyle(cfg, kStyle), k2)))

\* variant of planRepeatedTrip that times the replayed return leg with the
\* outbound leg's duration
planRepeatedTrip_OutboundDuration(st, cfg, outboundLeg, returnLeg) ==
  LET newOutboundDepartureTime == st.current_time + cfg.turnaround_time_minutes
      originalOutboundDuration == outboundLeg.arrival_time - outboundLeg.departure_time
      newOutboundLeg ==
        [outboundLeg EXCEPT !.departure_time = newOutboundDepartureTime,
                            !.arrival_time = newOutboundDepartureTime + originalOutboundDuration]
      st1 == AfterLeg(st, newOutboundLeg)
      newReturnDepartureTime == st1.current_time + cfg.turnaround_time_minutes
      newReturnLeg ==
        [returnLeg EXCEPT !.departure_time = newReturnDepartureTime,
                          !.arrival_time = newReturnDepartureTime + originalOutboundDuration]
  IN IF ~isWithinOperatingHours(newOutboundDepartureTime, cfg.operating_hours)
     THEN TripResult(FALSE, "Cannot schedule more flights today - outside operating hours",
                     <<>>, st)
     ELSE IF ~isWithinOperatingHours(newReturnDepartureTime, cfg.operating_hours)
          THEN TripResult(FALSE, "Cannot complete return flight - outside operating hours",
                          <<newOutboundLeg>>,
                          [st1 EXCEPT !.current_airport = cfg.start_airport])
          ELSE TripResult(TRUE, "Repeated trip planned successfully",
                          <<newOutboundLeg, newReturnLeg>>, AfterLeg(st1, newReturnLeg))

planRepeatedTrip(st, cfg, outboundLeg, returnLeg) ==
  LET newOutboundDepartureTime == st.current_time + cfg.turnaround_time_minutes
      originalOutboundDuration == outboundLeg.arrival_time - outboundLeg.departure_time
      newOutboundLeg ==
        [outboundLeg EXCEPT !.departure_time = newOutboundDepartureTime,
                            !.arrival_time = newOutboundDepartureTime + originalOutboundDuration]
      st1 == AfterLeg(st, newOutboundLeg)
      newReturnDepartureTime == st1.current_time + cfg.turnaround_time_minutes
      originalReturnDuration == returnLeg.arrival_time - returnLeg.departure_time
      newReturnLeg ==
        [returnLeg EXCEPT !.departure_time = newReturnDepartureTime,
                          !.arrival_time = newReturnDepartureTime + originalReturnDuration]
  IN IF ~isWithinOperatingHours(newOutboundDepartureTime, cfg.operating_hours)
     THEN TripResult(FALSE, "Cannot schedule more flights today - outside operating hours",
                     <<>>, st)
     ELSE IF ~isWithinOperatingHours(newReturnDepartureTime, cfg.operating_hours)
          THEN TripResult(FALSE, "Cannot complete return flight - outside operating hours",
                          <<newOutboundLeg>>,
                          [st1 EXCEPT !.current_airport = cfg.start_airport])
          ELSE TripResult(TRUE, "Repeated trip planned successfully",
                          <<newOutboundLeg, newReturnLeg>>, AfterLeg(st1, newReturnLeg))

\* variant of the trip-loop body that appends every leg of the trip to the
\* day being built, whatever its departure date
AfterTrip_NoPartition(ds, tripResult, cfg, haul, origDate) ==
  LET st == tripResult.st
      stop == \/ ~isWithinOperatingHours(st.current_time + cfg.turnaround_time_minutes,
                                         cfg.operating_hours)
              \/ DateOf(st.current_time) # origDate
  IN IF ~tripResult.success
     THEN [ds |-> [ds EXCEPT !.notes = Append(@, tripResult.message)],
           st |-> st, more |-> FALSE]
     ELSE [ds |-> [ds EXCEPT !.legs = @ \o tripResult.legs],
           st |-> IF haul = "long"
                  THEN [st EXCEPT !.long_haul_block_until =
                          st.current_time + 60 * cfg.minimum_rest_hours_between_long_haul]
                  ELSE st,
           more |-> ~stop]

\* variant of the trip-loop body that sets the long-haul block without
\* recording it in the day's notes
AfterTrip_NoRestNote(ds, tripResult, cfg, haul, origDate) ==
  LET st == tripResult.st
      legsToday == SelectSeq(tripResult.legs, LAMBDA l :
                     DateOf(l.departure_time) = origDate)
      legsLater == SelectSeq(tripResult.legs, LAMBDA l :
                     DateOf(l.departure_time) # origDate)
      sameDay == DateOf(st.current_time) = origDate
      stop == \/ ~isWithinOperatingHours(st.current_time + cfg.turnaround_time_minutes,
                                         cfg.operating_hours)
              \/ ~sameDay
  IN IF ~tripResult.success
     THEN [ds |-> [ds EXCEPT !.notes = Append(@, tripResult.message)],
           st |-> st, more |-> FALSE]
     ELSE IF Len(legsLater) > 0
     THEN [ds |-> [ds EXCEPT !.legs = @ \o legsToday,
                             !.notes = Append(@, "Calendar day boundary reached")],
           st |-> [st EXCEPT !.future_legs = legsLater],
           more |-> FALSE]
     ELSE [ds |-> [ds EXCEPT
                     !.legs = @ \o legsToday,
                     !.notes = @ \o (IF ~sameDay THEN <<"Calendar day boundary reached">>
                                     ELSE IF stop
                                     THEN <<"No more time for additional trips today">>
                                     ELSE <<>>)],
           st |-> IF haul = "long"
                  THEN [st EXCEPT !.long_haul_block_until =
                          st.current_time + 60 * cfg.minimum_rest_hours_between_long_haul]
                  ELSE st,
           more |-> ~stop]

\* variant of the trip-loop body in which a failed trip is skipped (no note, no
\* break) and the loop goes on to its next iteration
AfterTrip_ContinueOnFailure(ds, tripResult, cfg, haul, origDate) ==
  LET st == tripResult.st
      legsToday == SelectSeq(tripResult.legs, LAMBDA l :
                     DateOf(l.departure_time) = origDate)
      legsLater == SelectSeq(tripResult.legs, LAMBDA l :
                     DateOf(l.departure_time) # origDate)
      stop == \/ ~isWithinOperatingHours(st.current_time + cfg.turnaround_time_minutes,
                                         cfg.operating_hours)
              \/ DateOf(st.current_time) # origDate
  IN IF ~tripResult.success
     THEN [ds |-> ds, st |-> st, more |-> TRUE]
     ELSE IF Len(legsLater) > 0
     THEN [ds |-> [ds EXCEPT !.legs = @ \o legsToday,
                             !.notes = Append(@, "Calendar day boundary reached")],
           st |-> [st EXCEPT !.future_legs = legsLater],
           more |-> FALSE]
     ELSE [ds |-> [ds EXCEPT !.legs = @ \o legsToday],
           st |-> IF haul = "long"
                  THEN [st EXCEPT !.long_haul_block_until =
                          st.current_time + 60 * cfg.minimum_rest_hours_between_long_haul]
                  ELSE st,
           more |-> ~stop]

\* variant of the trip-loop body in which a failed trip ends the day without
\* recording its message
AfterTrip_SilentFailure(ds, tripResult, cfg, haul, origDate) ==
  LET st == tripResult.st
      legsToday == SelectSeq(tripResult.legs, LAMBDA l :
                     DateOf(l.departure_time) = origDate)
      legsLater == SelectSeq(tripResult.legs, LAMBDA l :
                     DateOf(l.departure_time) # origDate)
      sameDay == DateOf(st.current_time) = origDate
      stop == \/ ~isWithinOperatingHours(st.current_time + cfg.turnaround_time_minutes,
                                         cfg.operating_hours)
              \/ ~sameDay
  IN IF ~tripResult.success
     THEN [ds |-> ds, st |-> st, more |-> FALSE]
     ELSE IF Len(legsLater) > 0
     THEN [ds |-> [ds EXCEPT !.legs = @ \o legsToday,
                             !.notes = Append(@, "Calendar day boundary reached"),
                             !.overnight_location =
                                IF Len(legsToday) > 0
                                THEN legsToday[Len(legsToday)].arrival_airport
                                ELSE @],
           st |-> [st EXCEPT !.future_legs = legsLater],
           more |-> FALSE]
     ELSE [ds |-> [ds EXCEPT
                     !.legs = @ \o legsToday,
                     !.notes = @ \o (IF ~sameDay THEN <<"Calendar day boundary reached">>
                                     ELSE IF stop
                                     THEN <<"No more time for additional trips today">>
                                     ELSE <<>>)
                                \o (IF haul = "long"
                                    THEN <<"Long haul flight, rest required">>
                                    ELSE <<>>)],
           st |-> IF haul = "long"
                  THEN [st EXCEPT !.long_haul_block_until =
                          st.current_time + 60 * cfg.minimum_rest_hours_between_long_haul]
                  ELSE st,
           more |-> ~stop]

\* body of the trip loop after the trip was planned (dailyScheduler.ts 105-178);
\* more = canPlanMoreTrips when the iteration ends
AfterTrip(ds, tripResult, cfg, haul, origDate) ==
  LET st == tripResult.st
      currentDayLegs == SelectSeq(tripResult.legs, LAMBDA l :
                          DateOf(l.departure_time) = origDate)
      futureDayLegs == SelectSeq(tripResult.legs, LAMBDA l :
                          DateOf(l.departure_time) # origDate)
      withLegs == [ds EXCEPT !.legs = @ \o currentDayLegs]
      hasTimeForMoreTrips ==
        isWithinOperatingHours(st.current_time + cfg.turnaround_time_minutes,
                               cfg.operating_hours)
      sameCalendarDay == DateOf(st.current_time) = origDate
      stop == ~hasTimeForMoreTrips \/ ~sameCalendarDay
      timeNote == IF ~sameCalendarDay
                  THEN <<"Calendar day boundary reached">>
                  ELSE IF stop THEN <<"No more time for additional trips today">>
                  ELSE <<>>
      longNote == IF haul = "long" THEN <<"Long haul flight, rest required">> ELSE <<>>
  IN IF ~tripResult.success
     THEN [ds |-> [ds EXCEPT !.notes = Append(@, tripResult.message)],
           st |-> st, more |-> FALSE]
     ELSE IF Len(futureDayLegs) > 0
     THEN [ds |-> [withLegs EXCEPT
                     !.notes = Append(@, "Calendar day boundary reached"),
                     !.overnight_location =
                        IF Len(currentDayLegs) > 0
                        THEN currentDayLegs[Len(currentDayLegs)].arrival_airport
                        ELSE @],
           st |-> [st EXCEPT !.future_legs = futureDayLegs],
           more |-> FALSE]
     ELSE [ds |-> [withLegs EXCEPT !.notes = @ \o timeNote \o longNote],
           st |-> IF haul = "long"
                  THEN [st EXCEPT !.long_haul_block_until =
                          st.current_time + 60 * cfg.minimum_rest_hours_between_long_haul]
                  ELSE st,
           more |-> ~stop]

\* ------------------------------------------------------ ScheduleGenerator
\* the preferred-airport set of a new run: the set accumulates during the run,
\* so a run starts with none
InitialPreferredAirports == {}

initializeState(cfg) ==
  [current_airport |-> cfg.start_airport,
   current_date |-> 0,
   current_time |-> StartOfOperations(0, cfg),
   visited_routes |-> {},
   visited_airports |-> [a \in Airports |-> IF a = cfg.start_airport THEN 1 ELSE 0],
   long_haul_block_until |-> NoTime,
   generated_days |-> <<>>,
   consecutive_days_away_from_base |-> 0,
   future_legs |-> <<>>,
   preferred_airports |-> InitialPreferredAirports]

\* variant of handleOvernightReturn whose threshold is off by one
handleOvernightReturn_LateThreshold(st, cfg, table) ==
  LET returnLeg == planReturnToBase(st, cfg, table, NoHaul)
  IN IF st.consecutive_days_away_from_base >= 3 /\ returnLeg # NoLeg
     THEN [AfterLeg(st, returnLeg) EXCEPT !.consecutive_days_away_from_base = 0]
     ELSE st

handleOvernightReturn(st, cfg, table) ==
  LET returnLeg == planReturnToBase(st, cfg, table, NoHaul)
  IN IF st.consecutive_days_away_from_base >= 2 /\ returnLeg # NoLeg
     THEN [AfterLeg(st, returnLeg) EXCEPT !.consecutive_days_away_from_base = 0]
     ELSE st

\* variant of processFutureLegs that drains the buffer without recording the day
processFutureLegs_NoAppend(st, dayNumber) ==
  IF Len(st.future_legs) = 0 THEN st
  ELSE LET currentDayLegs == SelectSeq(st.future_legs, LAMBDA l :
                               DateOf(l.departure_time) = st.current_date)
           lastLeg == currentDayLegs[Len(currentDayLegs)]
       IN [st EXCEPT
             !.future_legs = SelectSeq(@, LAMBDA l :
                               DateOf(l.departure_time) # st.current_date),
             !.current_airport = IF Len(currentDayLegs) > 0
                                 THEN lastLeg.arrival_airport ELSE @,
             !.current_time = IF Len(currentDayLegs) > 0
                              THEN lastLeg.arrival_time ELSE @]

processFutureLegs(st, dayNumber) ==
  LET currentDayLegs == SelectSeq(st.future_legs, LAMBDA l :
                          DateOf(l.departure_time) = st.current_date)
      remaining == SelectSeq(st.future_legs, LAMBDA l :
                          DateOf(l.departure_time) # st.current_date)
      lastLeg == currentDayLegs[Len(currentDayLegs)]
      ds == [day |-> dayNumber,
             date |-> st.current_date,
             legs |-> currentDayLegs,
             overnight_location |-> IF Len(currentDayLegs) > 0
                                    THEN lastLeg.arrival_airport
                                    ELSE st.current_airport,
             notes |-> <<"Contains legs from previous day">>]
      moved == IF Len(currentDayLegs) > 0
               THEN [st EXCEPT !.current_airport = lastLeg.arrival_airport,
                               !.current_time = lastLeg.arrival_time]
               ELSE st
  IN IF Len(st.future_legs) = 0 THEN st
     ELSE [moved EXCEPT !.future_legs = remaining,
                        !.generated_days = Append(@, ds)]

\* generateSchedule 296-302: advance the date, reset the clock
AdvanceDay(st, cfg) ==
  [st EXCEPT !.current_date = @ + 1,
             !.current_time = StartOfOperations(st.current_date + 1, cfg)]

\* state at the head of a day-loop iteration, after the overnight-return check
LoopHead(st, cfg, table) ==
  IF st.current_airport # cfg.start_airport
  THEN handleOvernightReturn(st, cfg, table)
  ELSE st

Init ==
  /\ config \in Configurations
  /\ routes \in RouteTables
  /\ config.start_airport = (IF routes = ScenarioRoutes THEN "LHR" ELSE Base)
  /\ (\/ routes \in {ScenarioRoutes, <<R1, R2, R3, R4, R16, R17>>}
      \/ config.operating_hours.start = 1380) => config.days = 1
  /\ config.days > 2 => routes \in {<<R6, R7, R1, R8>>, <<R1, R9, R3>>}
  /\ config.destination_repetition_bias > 0 =>
        /\ config.days = 1
        /\ routes = <<R1, R2, R3, R4, R5>>
        /\ config.operating_hours = [start |-> 360, end |-> 1380]
  /\ pc = "dayLoop"
  /\ day = 1
  /\ state = initializeState(config)
  /\ daySchedule = NoDay
  /\ haulType = NoHaul
  /\ originalDate = 0
  /\ repetitionOutboundLeg = NoLeg
  /\ repetitionReturnLeg = NoLeg
  /\ fnCall = NoCall
  /\ fnResult = NoResult
  /\ suspended = NoFrame

\* day-loop iteration that builds the day from the overflow buffer
OverflowDay ==
  /\ pc = "dayLoop"
  /\ day <= config.days
  /\ LET st1 == LoopHead(state, config, routes)
     IN /\ Len(st1.future_legs) > 0
        /\ state' = AdvanceDay(processFutureLegs(st1, day), config)
  /\ day' = day + 1
  /\ UNCHANGED <<suspended, fnCall, fnResult, config, routes, pc, daySchedule, haulType, originalDate,
                 repetitionOutboundLeg, repetitionReturnLeg>>

\* day-loop iteration entering generateDailySchedule up to the trip loop
StartDay ==
  /\ pc = "dayLoop"
  /\ day <= config.days
  /\ LET st1 == LoopHead(state, config, routes)
     IN /\ Len(st1.future_legs) = 0
        /\ state' = st1
        /\ originalDate' = st1.current_date
        /\ daySchedule' =
             [day |-> day, date |-> st1.current_date, legs |-> <<>>,
              overnight_location |-> st1.current_airport,
              notes |-> IF LongHaulBlocked(st1)
                        THEN <<"Long haul block active">> ELSE <<>>]
        /\ \E k \in Draws :
             /\ haulType' = selectHaulType(st1, config, k)
             /\ pc' = IF haulType' = Thrown THEN "raised" ELSE "tripLoop"
  /\ repetitionOutboundLeg' = NoLeg
  /\ repetitionReturnLeg' = NoLeg
  /\ UNCHANGED <<suspended, fnCall, fnResult, config, routes, day>>

\* trip-loop iteration that finds the aircraft away from base
NotAtBase ==
  /\ pc = "tripLoop"
  /\ state.current_airport # config.start_airport
  /\ daySchedule' = [daySchedule EXCEPT
                       !.notes = Append(@, "Cannot plan more trips - not at base")]
  /\ pc' = "endDay"
  /\ UNCHANGED <<suspended, fnCall, fnResult, config, routes, day, state, haulType, originalDate,
                 repetitionOutboundLeg, repetitionReturnLeg>>

\* one iteration of the trip loop with a new trip, for given draws: the day
\* schedule, the state, canPlanMoreTrips and the stored repetition legs
NewTripOutcome(st, ds, cfg, haul, table, origDate, outLeg, retLeg, kStyle, k1, k2) ==
  Bind(planTrip(st, cfg, haul, table, kStyle, k1, k2), LAMBDA tripResult :
    LET store == cfg.repetition_mode /\ tripResult.success /\ Len(tripResult.legs) >= 2
        noted == IF store /\ Len(tripResult.legs) > 2
                 THEN [ds EXCEPT !.notes = Append(@, "Repetition mode active")]
                 ELSE ds
    IN Bind(AfterTrip(noted, tripResult, cfg, haul, origDate), LAMBDA out :
         [ds |-> out.ds, st |-> out.st, more |-> out.more,
          outLeg |-> IF store THEN tripResult.legs[1] ELSE outLeg,
          retLeg |-> IF store THEN tripResult.legs[Len(tripResult.legs)] ELSE retLeg]))

\* trip-loop iteration that plans a new trip
PlanNewTrip ==
  /\ pc = "tripLoop"
  /\ state.current_airport = config.start_airport
  /\ ~(config.repetition_mode /\ repetitionOutboundLeg # NoLeg /\ repetitionReturnLeg # NoLeg)
  /\ \E kStyle \in Draws, k1 \in Draws, k2 \in Draws :
       \E o \in { NewTripOutcome(state, daySchedule, config, haulType, routes,
                                  originalDate, repetitionOutboundLeg,
                                  repetitionReturnLeg, kStyle, k1, k2) } :
         /\ repetitionOutboundLeg' = o.outLeg
         /\ repetitionReturnLeg' = o.retLeg
         /\ daySchedule' = o.ds
         /\ state' = o.st
         /\ pc' = IF o.more THEN "tripLoop" ELSE "endDay"
  /\ UNCHANGED <<suspended, fnCall, fnResult, config, routes, day, haulType, originalDate>>

\* trip-loop iteration that replays the stored outbound/return pair
PlanRepeatedTrip ==
  /\ pc = "tripLoop"
  /\ state.current_airport = config.start_airport
  /\ config.repetition_mode /\ repetitionOutboundLeg # NoLeg /\ repetitionReturnLeg # NoLeg
  /\ LET tripResult == planRepeatedTrip(state, config, repetitionOutboundLeg,
                                        repetitionReturnLeg)
         out == AfterTrip(daySchedule, tripResult, config, haulType, originalDate)
     IN /\ daySchedule' = out.ds
        /\ state' = out.st
        /\ pc' = IF out.more THEN "tripLoop" ELSE "endDay"
  /\ UNCHANGED <<suspended, fnCall, fnResult, config, routes, day, haulType, originalDate,
                 repetitionOutboundLeg, repetitionReturnLeg>>

\* variant of the end of the day that does not count a night away from base
EndDay_NoIncrement ==
  /\ pc = "endDay"
  /\ LET away == state.current_airport # config.start_airport
         counter == IF away THEN state.consecutive_days_away_from_base ELSE 0
         ds == [daySchedule EXCEPT
                  !.overnight_location = state.current_airport,
                  !.notes = @ \o (IF away THEN <<"Overnight layover required">> ELSE <<>>)
                              \o (IF away /\ counter >= 2
                                  THEN <<"Will force return to base next morning">>
                                  ELSE <<>>)]
         st1 == [state EXCEPT !.consecutive_days_away_from_base = counter,
                              !.generated_days = Append(@, ds),
                              !.current_airport = ds.overnight_location]
     IN state' = AdvanceDay(st1, config)
  /\ day' = day + 1
  /\ pc' = "dayLoop"
  /\ daySchedule' = NoDay
  /\ UNCHANGED <<suspended, fnCall, fnResult, config, routes, haulType, originalDate,
                 repetitionOutboundLeg, repetitionReturnLeg>>

\* end of generateDailySchedule (181-199) and of the day-loop iteration (292-302)
EndDay ==
  /\ pc = "endDay"
  /\ LET away == state.current_airport # config.start_airport
         counter == IF away THEN state.consecutive_days_away_from_base + 1 ELSE 0
         ds == [daySchedule EXCEPT
                  !.overnight_location = state.current_airport,
                  !.notes = @ \o (IF away THEN <<"Overnight layover required">> ELSE <<>>)
                              \o (IF away /\ counter >= 2
                                  THEN <<"Will force return to base next morning">>
                                  ELSE <<>>)]
         st1 == [state EXCEPT !.consecutive_days_away_from_base = counter,
                              !.generated_days = Append(@, ds),
                              !.current_airport = ds.overnight_location]
     IN state' = AdvanceDay(st1, config)
  /\ day' = day + 1
  /\ pc' = "dayLoop"
  /\ daySchedule' = NoDay
  /\ UNCHANGED <<suspended, fnCall, fnResult, config, routes, haulType, originalDate,
                 repetitionOutboundLeg, repetitionReturnLeg>>

\* after the day loop: final return, leftover overflow legs, assembly (305-336)
Finish ==
  /\ pc = "dayLoop"
  /\ day > config.days
  /\ LET finalReturn == planForcedReturn(state, config, routes,
                                         Len(state.generated_days) + 1, NoHaul)
         st1 == IF state.current_airport # config.start_airport /\ finalReturn # NoDay
                THEN [state EXCEPT !.generated_days = Append(@, finalReturn)]
                ELSE state
     IN state' = IF Len(st1.future_legs) > 0
                 THEN processFutureLegs(st1, Len(st1.generated_days) + 1)
                 ELSE st1
  /\ pc' = "done"
  /\ UNCHANGED <<suspended, fnCall, fnResult, config, routes, day, daySchedule, haulType, originalDate,
                 repetitionOutboundLeg, repetitionReturnLeg>>

Next ==
  \/ OverflowDay
  \/ StartDay
  \/ NotAtBase
  \/ PlanNewTrip
  \/ PlanRepeatedTrip
  \/ EndDay
  \/ Finish

Spec == Init /\ [][Next]_vars

\* the day loop and the trip loop are plain sequential code: every enabled
\* step is eventually taken
FairSpec == Spec /\ WF_vars(Next)

\* ------------------------------------------------ pure helper functions
MaxItems == 3
ItemWeights == {0, 1, 5}

WeightedItems(ws) == [i \in 1 .. Len(ws) |-> [item |-> i, weight |-> ws[i]]]

SelectionCalls ==
  { [op |-> "weightedRandomSelection", weights |-> ws, draw |-> k] :
      ws \in UNION { [1 .. n -> ItemWeights] : n \in 1 .. MaxItems }, k \in Draws }

MaxDuration == 400

ClassifyCalls ==
  { [op |-> "classifyRoute", duration |-> d] : d \in 0 .. MaxDuration }

HaulWeightChoices == {0, 3, 5}

\* selectHaulType calls: the preference flags, the weights (tenths), the rest
\* block (unset, expired at 01:40, active until 15:00; the clock is at the
\* start of operations) and the draw
HaulTypeCalls ==
  { [op |-> "selectHaulType", preferences |-> p, weighting |-> w,
     block |-> b, draw |-> k] :
      p \in HaulPreferenceChoices,
      w \in [HaulTypes -> HaulWeightChoices],
      b \in {NoTime, 100, 900},
      k \in Draws }

\* calls of BiasService.applyBiasing: a candidate list, a preferred-airport
\* set, a repetition bias in tenths and the visit count of every destination
BiasCalls ==
  [ op : {"applyBiasing"},
    list : { <<R1>>, <<R3>>, <<R1, R3>>, <<R3, R1>>, <<R1, R6>> },
    preferred : SUBSET {"X", "Y"},
    bias : {0, 5, StrictBias},
    visits : {0, 2, 8} ]

\* calls of LegSelector.selectLeg for a short-haul leg from base: a route
\* table, the configured airline, the preferred-airport set, the repetition
\* bias, the clock and the draw
SelectLegCalls ==
  [ op : {"selectLeg"},
    table : { <<R1, R3>>, <<R3, R1>>, <<R18, R19, R20, R1>> },
    airline : { [iata |-> "AA", name |-> "alpha"],
                [iata |-> "", name |-> "alpha"],
                [iata |-> "ZZ", name |-> "zeta"] },
    preferred : SUBSET {"X", "Y"},
    bias : {0, StrictBias},
    time : {360, 1370},
    draw : Draws ]

\* calls of TimingService.findEarliestReturnFlight: the clock (06:40, 22:50
\* and 01:00 of the next date), the current airport and the route list
ReturnFlightCalls ==
  [ op : {"findEarliestReturnFlight"},
    time : {400, 1370, 1500},
    airport : {Base, "X", "J"},
    list : { <<R2, R8>>, <<R8, R9, R2>>, <<R1, R4>> } ]

IdleConfig ==
  CHOOSE c \in Configurations :
    c.start_airport = Base /\ c.days = 1 /\ c.haul_preferences = [short |-> TRUE, medium |-> TRUE, long |-> TRUE]
    /\ c.operating_hours.end = 1380 /\ ~c.repetition_mode
    /\ c.destination_repetition_bias = 0

PureInit ==
  /\ fnCall \in SelectionCalls \cup ClassifyCalls \cup HaulTypeCalls \cup BiasCalls
                \cup SelectLegCalls \cup ReturnFlightCalls
  /\ fnResult = NoResult
  /\ suspended = NoFrame
  /\ config = IdleConfig
  /\ routes = <<>>
  /\ pc = "idle"
  /\ day = 1
  /\ state = initializeState(config)
  /\ daySchedule = NoDay
  /\ haulType = NoHaul
  /\ originalDate = 0
  /\ repetitionOutboundLeg = NoLeg
  /\ repetitionReturnLeg = NoLeg

CallWeightedRandomSelection ==
  /\ fnCall.op = "weightedRandomSelection"
  /\ ~fnResult.done
  /\ fnResult' = [done |-> TRUE,
                  value |-> weightedRandomSelection(WeightedItems(fnCall.weights),
                                                    fnCall.draw)]
  /\ UNCHANGED <<suspended, fnCall, runVars>>

CallClassifyRoute ==
  /\ fnCall.op = "classifyRoute"
  /\ ~fnResult.done
  /\ fnResult' = [done |-> TRUE, value |-> classifyRoute(fnCall.duration)]
  /\ UNCHANGED <<suspended, fnCall, runVars>>

HaulCallState ==
  [initializeState(IdleConfig) EXCEPT !.long_haul_block_until = fnCall.block]

HaulCallConfig ==
  [IdleConfig EXCEPT !.haul_preferences = fnCall.preferences,
                     !.haul_weighting = fnCall.weighting]

CallSelectHaulType ==
  /\ fnCall.op = "selectHaulType"
  /\ ~fnResult.done
  /\ fnResult' = [done |-> TRUE,
                  value |-> selectHaulType(HaulCallState, HaulCallConfig, fnCall.draw)]
  /\ UNCHANGED <<suspended, fnCall, runVars>>

BiasCallConfig ==
  [IdleConfig EXCEPT !.destination_repetition_bias = fnCall.bias]

BiasCallVisits ==
  [a \in Airports |-> IF a = Base THEN 1 ELSE fnCall.visits]

CallApplyBiasing ==
  /\ fnCall.op = "applyBiasing"
  /\ ~fnResult.done
  /\ fnResult' = [done |-> TRUE,
                  value |-> applyBiasing(fnCall.list, BiasCallConfig, BiasCallVisits,
                                         fnCall.preferred)]
  /\ UNCHANGED <<suspended, fnCall, runVars>>

SelectLegCallState ==
  [initializeState(IdleConfig) EXCEPT !.current_time = fnCall.time,
                                      !.preferred_airports = fnCall.preferred]

SelectLegCallConfig ==
  [IdleConfig EXCEPT !.airline_iata = fnCall.airline.iata,
                     !.airline_name = fnCall.airline.name,
                     !.destination_repetition_bias = fnCall.bias]

CallSelectLeg ==
  /\ fnCall.op = "selectLeg"
  /\ ~fnResult.done
  /\ fnResult' = [done |-> TRUE,
                  value |-> selectLeg(SelectLegCallState, SelectLegCallConfig, "short",
                                      fnCall.table, FALSE, FALSE, fnCall.draw)]
  /\ UNCHANGED <<suspended, fnCall, runVars>>

CallFindEarliestReturnFlight ==
  /\ fnCall.op = "findEarliestReturnFlight"
  /\ ~fnResult.done
  /\ fnResult' = [done |-> TRUE,
                  value |-> findEarliestReturnFlight(fnCall.time, fnCall.airport, Base,
                                                     fnCall.list, IdleConfig)]
  /\ UNCHANGED <<suspended, fnCall, runVars>>

PureNext ==
  \/ CallWeightedRandomSelection
  \/ CallClassifyRoute
  \/ CallSelectHaulType
  \/ CallApplyBiasing
  \/ CallSelectLeg
  \/ CallFindEarliestReturnFlight

PureSpec == PureInit /\ [][PureNext]_vars

TypeOK ==
  /\ pc \in {"dayLoop", "tripLoop", "endDay", "done", "raised", "idle",
            "validate", "fetch", "generate", "responded"}
  /\ day \in 1 .. (MaxDays + 1)
  /\ state.current_airport \in Airports

\* ------------------------------------------------------ emitted schedule
RECURSIVE FlattenLegs(_)
FlattenLegs(days) ==
  IF days = <<>> THEN <<>> ELSE Head(days).legs \o FlattenLegs(Tail(days))

EmittedLegs == FlattenLegs(state.generated_days)

HasNote(ds, note) == \E i \in 1 .. Len(ds.notes) : ds.notes[i] = note

SomeDayHasNote(note) ==
  \E d \in 1 .. Len(state.generated_days) : HasNote(state.generated_days[d], note)

ShortOnly == [short |-> TRUE, medium |-> FALSE, long |-> FALSE]
LongOnly == [short |-> FALSE, medium |-> FALSE, long |-> TRUE]
NoneAllowed == [short |-> FALSE, medium |-> FALSE, long |-> FALSE]

\* C1: when generateSchedule returns, the days list has at least config.days
\* entries.
C1_DaysCount ==
  pc = "done" => Len(state.generated_days) >= config.days

\* a finished run of the full length in which one day was built from overflow legs
C1_Witness ==
  /\ pc = "done"
  /\ config.days = MaxDays
  /\ SomeDayHasNote("Contains legs from previous day")
  /\ Len(EmittedLegs) >= 2

C3_ShortOnly ==
  config.haul_preferences = ShortOnly =>
    \A i \in 1 .. Len(EmittedLegs) : EmittedLegs[i].haul_type = "short"

\* a finished short-only run with trip legs, return legs and an overflow day
C3_Witness ==
  /\ pc = "done"
  /\ config.haul_preferences = ShortOnly
  /\ SomeDayHasNote("Contains legs from previous day")
  /\ Len(EmittedLegs) >= 2

\* C4: with at least one haul type enabled, every emitted leg has an enabled
\* haul type.
C4_PreferencesRespected ==
  (\E t \in HaulTypes : config.haul_preferences[t]) =>
    \A i \in 1 .. Len(EmittedLegs) :
      config.haul_preferences[EmittedLegs[i].haul_type]

\* C5: weightedRandomSelection never returns an item of weight 0 when some
\* item has positive weight; for weights <<0, 0, 5>> it returns the third item
\* for every draw.
C5_NoZeroWeightItem ==
  (fnCall.op = "weightedRandomSelection" /\ fnResult.done) =>
    /\ (\E i \in 1 .. Len(fnCall.weights) : fnCall.weights[i] > 0)
         => fnCall.weights[fnResult.value] > 0
    /\ fnCall.weights = <<0, 0, 5>> => fnResult.value = 3

\* C6: every run of generateSchedule reaches its return statement.
C6_Terminates ==
  <>(pc = "done")

\* a finished repetition-mode run in which the stored pair was replayed
C6_Witness ==
  /\ pc = "done"
  /\ config.repetition_mode
  /\ \E d \in 1 .. Len(state.generated_days) : Len(state.generated_days[d].legs) >= 4

\* C7: no exception leaves generateSchedule.
C7_NeverRaises ==
  pc # "raised"

\* a run that returned although no haul type was allowed and a trip found no
\* return route
C7_Witness ==
  /\ pc = "done"
  /\ config.haul_preferences = NoneAllowed
  /\ SomeDayHasNote("Cannot return to base")
  /\ Len(state.generated_days) >= config.days

\* C8: inside a trip (a leg that does not end at base and the leg flown next
\* from its arrival airport) the haul type does not change.
C8_AircraftContinuity ==
  \A i \in 1 .. (Len(EmittedLegs) - 1) :
    (/\ EmittedLegs[i].arrival_airport # config.start_airport
     /\ EmittedLegs[i + 1].departure_airport = EmittedLegs[i].arrival_airport)
    => EmittedLegs[i + 1].haul_type = EmittedLegs[i].haul_type

\* C9: every emitted leg departs inside the operating-hours window.
C9_DepartureCurfew ==
  \A i \in 1 .. Len(EmittedLegs) :
    isWithinOperatingHours(EmittedLegs[i].departure_time, config.operating_hours)

\* C10: consecutive emitted legs are separated by at least the turnaround time.
C10_Turnaround ==
  \A i \in 1 .. (Len(EmittedLegs) - 1) :
    EmittedLegs[i + 1].departure_time >=
      EmittedLegs[i].arrival_time + config.turnaround_time_minutes

\* every leg planned so far for emission: the finished days, the day being
\* built and the overflow buffer
PlannedLegs(st, ds) ==
  { l \in { FlattenLegs(st.generated_days)[i] :
              i \in 1 .. Len(FlattenLegs(st.generated_days)) } : TRUE }
  \cup (IF ds = NoDay THEN {} ELSE { ds.legs[i] : i \in 1 .. Len(ds.legs) })
  \cup { st.future_legs[i] : i \in 1 .. Len(st.future_legs) }

\* the legs a step adds to the schedule
NewLegs == PlannedLegs(state', daySchedule') \ PlannedLegs(state, daySchedule)

\* C11: no step adds a long-haul leg that departs before the rest block left
\* by an earlier long-haul trip has expired.
C11_MinimumRest ==
  [][ \A l \in NewLegs :
        (l.haul_type = "long" /\ state.long_haul_block_until # NoTime)
          => l.departure_time >= state.long_haul_block_until ]_vars

\* number of long-haul legs in a sequence of legs
LongLegCount(legs) == Cardinality({ i \in 1 .. Len(legs) : legs[i].haul_type = "long" })

\* C12: no emitted day contains more than one long-haul leg.
C12_OneLongHaulPerDay ==
  \A d \in 1 .. Len(state.generated_days) :
    LongLegCount(state.generated_days[d].legs) <= 1

\* the legs a trip-loop iteration appends to the day being built
AddedToDay == SubSeq(daySchedule'.legs, Len(daySchedule.legs) + 1, Len(daySchedule'.legs))

\* legs form one journey from airport `from`: each leg leaves where and after
\* the one before arrived
IsJourney(legs, from) ==
  /\ Len(legs) > 0 => legs[1].departure_airport = from
  /\ \A i \in 1 .. (Len(legs) - 1) :
        /\ legs[i + 1].departure_airport = legs[i].arrival_airport
        /\ legs[i + 1].departure_time >= legs[i].arrival_time

\* C13: a trip-loop iteration splits the legs of its trip by departure date:
\* the day receives, in order, exactly the legs departing on the day's date,
\* future_legs exactly the legs departing on a later date (none if there is
\* no such leg); together they are the whole trip, ending where the
\* aircraft now is.
C13_OverflowPartition ==
  [][ (pc = "tripLoop" /\ state.current_airport = config.start_airport) =>
        LET trip == AddedToDay \o state'.future_legs
        IN /\ SubSeq(daySchedule'.legs, 1, Len(daySchedule.legs)) = daySchedule.legs
           /\ \A i \in 1 .. Len(AddedToDay) :
                 DateOf(AddedToDay[i].departure_time) = daySchedule.date
           /\ \A i \in 1 .. Len(state'.future_legs) :
                 DateOf(state'.future_legs[i].departure_time) > daySchedule.date
           /\ IsJourney(trip, config.start_airport)
           /\ Len(trip) > 0 =>
                 /\ trip[Len(trip)].arrival_airport = state'.current_airport
                 /\ trip[Len(trip)].arrival_time = state'.current_time ]_vars

\* a day has been built whose last trip was split: some legs in the day, the
\* rest in the overflow buffer
C13_Witness ==
  /\ pc = "endDay"
  /\ Len(daySchedule.legs) > 0
  /\ Len(state.future_legs) > 0

\* the elements of a sequence
Range(seq) == { seq[i] : i \in 1 .. Len(seq) }

\* C14: a leg in the overflow buffer stays there until it is emitted; when
\* generateSchedule returns the buffer is empty and no leg is emitted twice.
C14_OverflowNotLost ==
  [][ /\ Range(state.future_legs)
            \subseteq Range(state'.future_legs) \cup Range(FlattenLegs(state'.generated_days))
      /\ pc' = "done" =>
            /\ state'.future_legs = <<>>
            /\ \A i, j \in 1 .. Len(FlattenLegs(state'.generated_days)) :
                  FlattenLegs(state'.generated_days)[i] = FlattenLegs(state'.generated_days)[j]
                    => i = j ]_vars

\* C15: in repetition mode the legs of an emitted day alternate between one
\* outbound route from base and one return route from a single destination,
\* and every leg lasts as long as its route.
C15_RepetitionMode ==
  config.repetition_mode =>
    \A d \in 1 .. Len(state.generated_days) :
      LET legs == state.generated_days[d].legs
          outbound == { l \in Range(legs) : l.departure_airport = config.start_airport }
          return == { l \in Range(legs) : l.departure_airport # config.start_airport }
      IN /\ Cardinality({ l.route_id : l \in outbound }) <= 1
         /\ Cardinality({ l.route_id : l \in return }) <= 1
         /\ \A l \in return : l.arrival_airport = config.start_airport
         /\ \A o \in outbound, r \in return : r.departure_airport = o.arrival_airport
         /\ \A i \in 1 .. (Len(legs) - 1) :
               legs[i + 1].departure_airport = legs[i].arrival_airport
         /\ \A l \in Range(legs) : l.arrival_time - l.departure_time = l.duration_min

\* a finished repetition-mode run with a day on which the stored pair was
\* replayed at new times
C15_Witness ==
  /\ pc = "done"
  /\ config.repetition_mode
  /\ \E d \in 1 .. Len(state.generated_days) :
        LET legs == state.generated_days[d].legs
        IN /\ Len(legs) >= 4
           /\ legs[3].route_id = legs[1].route_id
           /\ legs[4].route_id = legs[2].route_id
           /\ legs[3].departure_time > legs[2].arrival_time

\* the route ids of a sequence of legs
RouteIds(legs) == [i \in 1 .. Len(legs) |-> legs[i].route_id]

\* a finished one-day run on the four LHR routes
ScenarioRun(prefs) ==
  /\ pc = "done"
  /\ routes = ScenarioRoutes
  /\ config.days = 1
  /\ config.haul_preferences = prefs

\* the run returned exactly one day: first, then back, all of one haul type,
\* ending at LHR
OneRoundTrip(first, back, haul) ==
  /\ Len(state.generated_days) = 1
  /\ RouteIds(state.generated_days[1].legs) = <<first.route_id, back.route_id>>
  /\ \A i \in 1 .. 2 : state.generated_days[1].legs[i].haul_type = haul
  /\ state.generated_days[1].legs[1].departure_airport = "LHR"
  /\ state.generated_days[1].legs[2].arrival_airport = "LHR"
  /\ state.generated_days[1].overnight_location = "LHR"

\* the return leg of the day's first round trip over `first` departs on the
\* start date inside the operating window
ReturnDepartsOnStartDate(first) ==
  LET t == config.operating_hours.start + 2 * config.turnaround_time_minutes
             + first.duration_min
  IN t < MinutesPerDay /\ isWithinOperatingHours(t, config.operating_hours)

\* C16 (as claimed): short-haul-only scenario, every run is one day
\* LHR->CDG, CDG->LHR, all short, overnight at LHR.
C16_Original ==
  ScenarioRun(ShortOnly) => OneRoundTrip(S1, S2, "short")

\* C16 (amended): the same, for runs with repetition mode off whose return
\* leg can depart on the start date inside the operating window.
C16_Amended ==
  (ScenarioRun(ShortOnly) /\ ~config.repetition_mode /\ ReturnDepartsOnStartDate(S1))
    => OneRoundTrip(S1, S2, "short")

\* a finished run of the short-haul scenario under the amended conditions
C16_Witness ==
  /\ ScenarioRun(ShortOnly) /\ ~config.repetition_mode /\ ReturnDepartsOnStartDate(S1)
  /\ Len(EmittedLegs) = 2

\* C17 (as claimed): long-haul-only scenario, every run is one day
\* LHR->JFK, JFK->LHR, both long, with the rest-block note.
C17_Original ==
  ScenarioRun(LongOnly) =>
    /\ OneRoundTrip(S3, S4, "long")
    /\ HasNote(state.generated_days[1], "Long haul flight, rest required")

\* C17 (amended): the same, for runs with repetition mode off whose return
\* leg can depart on the start date inside the operating window.
C17_Amended ==
  (ScenarioRun(LongOnly) /\ ~config.repetition_mode /\ ReturnDepartsOnStartDate(S3))
    =>
    /\ OneRoundTrip(S3, S4, "long")
    /\ HasNote(state.generated_days[1], "Long haul flight, rest required")

\* a finished run of the long-haul scenario under the amended conditions,
\* with the rest block set
C17_Witness ==
  /\ ScenarioRun(LongOnly) /\ ~config.repetition_mode /\ ReturnDepartsOnStartDate(S3)
  /\ state.long_haul_block_until # NoTime
  /\ Len(EmittedLegs) = 2

\* C18: classifyRoute returns short up to 180 minutes, medium from 181 to 360
\* and long above 360; so 180 is short, 181 and 360 are medium, 361 is long.
C18_ClassifyRoute ==
  (fnCall.op = "classifyRoute" /\ fnResult.done) =>
    /\ fnCall.duration <= 180 => fnResult.value = "short"
    /\ (fnCall.duration >= 181 /\ fnCall.duration <= 360) => fnResult.value = "medium"
    /\ fnCall.duration > 360 => fnResult.value = "long"
    /\ fnCall.duration = 180 => fnResult.value = "short"
    /\ fnCall.duration \in {181, 360} => fnResult.value = "medium"
    /\ fnCall.duration = 361 => fnResult.value = "long"

\* classifyRoute has returned for the first duration that is long
C18_Witness ==
  /\ fnCall.op = "classifyRoute"
  /\ fnCall.duration = 361
  /\ fnResult.done
  /\ fnResult.value = "long"

Destinations(legs) ==
  { legs[i].arrival_airport : i \in 1 .. Len(legs) } \ {config.start_airport}

\* C19: no emitted day contains legs arriving at more than two distinct
\* airports other than base, however many trips fit into the day.
C19_MaxDestinations ==
  \A d \in 1 .. Len(state.generated_days) :
    Cardinality(Destinations(state.generated_days[d].legs)) <= 2

\* ------------------------------------------- two calls on one generator
\* The exported scheduleGenerator is one object; a request handler awaits
\* generateSchedule, so a second call can run whenever the first one waits
\* at an await.  The generator and its services have no fields other than
\* references to each other: a call's data are its parameters and locals.
ConcurrentConfigurations ==
  { c \in Configurations :
      /\ c.start_airport = Base
      /\ c.days = 2
      /\ c.operating_hours = [start |-> 360, end |-> 1380]
      /\ c.haul_preferences \in {ShortOnly, LongOnly}
      /\ c.destination_repetition_bias = 0 }

ConcurrentRouteTables ==
  { <<R1, R2, R3, R4, R5>>, <<R1, R9, R3>>, <<R12, R13, R14, R15>> }

\* a call's parameters and locals at an await
CallFrame(call) ==
  [ call |-> call, config |-> config, routes |-> routes, pc |-> pc, day |-> day,
    state |-> state, daySchedule |-> daySchedule, haulType |-> haulType,
    originalDate |-> originalDate,
    repetitionOutboundLeg |-> repetitionOutboundLeg,
    repetitionReturnLeg |-> repetitionReturnLeg ]

InitialFrame(call, c, r) ==
  [ call |-> call, config |-> c, routes |-> r, pc |-> "dayLoop", day |-> 1,
    state |-> initializeState(c), daySchedule |-> NoDay, haulType |-> NoHaul,
    originalDate |-> 0, repetitionOutboundLeg |-> NoLeg,
    repetitionReturnLeg |-> NoLeg ]

RunningCall == 3 - suspended.call

\* variant in which the GeneratorState is a field of the generator
ResumedState_OnGenerator(frame, current) == current

\* the state a resumed call works on: the object created by its own
\* initializeState, held in a local and passed down as an argument
ResumedState(frame, current) == frame.state

ConcurrentInit ==
  /\ config \in ConcurrentConfigurations
  /\ routes \in ConcurrentRouteTables
  /\ pc = "dayLoop"
  /\ day = 1
  /\ state = initializeState(config)
  /\ daySchedule = NoDay
  /\ haulType = NoHaul
  /\ originalDate = 0
  /\ repetitionOutboundLeg = NoLeg
  /\ repetitionReturnLeg = NoLeg
  /\ fnCall = NoCall
  /\ fnResult = NoResult
  /\ suspended \in { InitialFrame(2, c, r) :
                        c \in ConcurrentConfigurations, r \in ConcurrentRouteTables }

\* the running call reaches an await (or returns) and the other call resumes
Yield ==
  /\ suspended.pc # "done"
  /\ suspended' = CallFrame(RunningCall)
  /\ config' = suspended.config
  /\ routes' = suspended.routes
  /\ pc' = suspended.pc
  /\ day' = suspended.day
  /\ state' = ResumedState(suspended, state)
  /\ daySchedule' = suspended.daySchedule
  /\ haulType' = suspended.haulType
  /\ originalDate' = suspended.originalDate
  /\ repetitionOutboundLeg' = suspended.repetitionOutboundLeg
  /\ repetitionReturnLeg' = suspended.repetitionReturnLeg
  /\ UNCHANGED <<fnCall, fnResult>>

ConcurrentNext ==
  \/ OverflowDay
  \/ StartDay
  \/ NotAtBase
  \/ PlanNewTrip
  \/ PlanRepeatedTrip
  \/ EndDay
  \/ Finish
  \/ Yield

ConcurrentSpec == ConcurrentInit /\ [][ConcurrentNext]_vars

FrameRouteIds(frame) == { frame.routes[i].route_id : i \in 1 .. Len(frame.routes) }

\* what a returned call's schedule owes to its own arguments only
OwnSchedule(frame) ==
  frame.pc = "done" =>
    /\ Len(frame.state.generated_days) >= frame.config.days
    /\ \A d \in 1 .. Len(frame.state.generated_days) :
         /\ frame.state.generated_days[d].day = d
         /\ Range(RouteIds(frame.state.generated_days[d].legs)) \subseteq FrameRouteIds(frame)

BothOwnSchedules ==
  OwnSchedule(suspended) /\ OwnSchedule(CallFrame(RunningCall))

ValidationMessages ==
  { "Days must be between 1 and 30",
    "At least one haul type must be allowed",
    "Turnaround time must be between 30 and 180 minutes" }

FetchFailedMessage == "Failed to fetch routes for airline"
NoRoutesMessage == "No routes found for airline ID"
GeneratorErrorMessage == "generator error"
TypeErrorMessage == "Cannot read properties of undefined"

\* validateConfiguration: the list of errors it returns, or the TypeError it
\* throws when a nested object of the body is missing
ValidationOutcomes ==
  { [threw |-> FALSE, errors |-> e] : e \in SUBSET ValidationMessages }
    \cup { [threw |-> TRUE, errors |-> {}] }

\* one request: the outcome of validation, the cache entry of the airline,
\* what the remote catalogue answers and what the generator does
GenerateRequests ==
  [ op : {"generate"},
    validation : ValidationOutcomes,
    cached : {"miss", "empty", "routes"},
    provider : {"fails", "empty", "routes"},
    generator : {"schedule", "throws"} ]

RouteList(kind) == IF kind = "routes" THEN <<R1, R2>> ELSE <<>>

\* variant of getRoutesForAirline that answers a failed request with no routes
getRoutesForAirline_SwallowFailure(cached, provider) ==
  IF cached # "miss"
    THEN [threw |-> FALSE, routes |-> RouteList(cached), requests |-> 0]
    ELSE [threw |-> FALSE, routes |-> RouteList(provider), requests |-> 1]

getRoutesForAirline(cached, provider) ==
  IF cached # "miss"
    THEN [threw |-> FALSE, routes |-> RouteList(cached), requests |-> 0]
  ELSE IF provider = "fails"
    THEN [threw |-> TRUE, message |-> FetchFailedMessage, requests |-> 1]
  ELSE [threw |-> FALSE, routes |-> RouteList(provider), requests |-> 1]

Respond(status, message) ==
  [done |-> TRUE, status |-> status, message |-> message,
   schedule |-> FALSE,
   generatorCalls |-> fnResult.generatorCalls,
   providerRequests |-> fnResult.providerRequests]

EndpointInit ==
  /\ fnCall \in GenerateRequests
  /\ fnResult = [done |-> FALSE, generatorCalls |-> 0, providerRequests |-> 0]
  /\ config = IdleConfig
  /\ routes = <<>>
  /\ pc = "validate"
  /\ day = 1
  /\ state = initializeState(config)
  /\ daySchedule = NoDay
  /\ haulType = NoHaul
  /\ originalDate = 0
  /\ repetitionOutboundLeg = NoLeg
  /\ repetitionReturnLeg = NoLeg
  /\ suspended = NoFrame

\* validateConfiguration and the two checks of its result
ValidateRequest ==
  /\ pc = "validate"
  /\ IF fnCall.validation.threw
       THEN fnResult' = Respond(500, TypeErrorMessage) /\ pc' = "responded"
     ELSE IF Cardinality(fnCall.validation.errors) > 0
       THEN fnResult' = Respond(400, "") /\ pc' = "responded"
     ELSE IF ~(fnCall.validation.errors = {})
       THEN fnResult' = Respond(400, "Invalid configuration") /\ pc' = "responded"
     ELSE fnResult' = fnResult /\ pc' = "fetch"
  /\ UNCHANGED <<fnCall, suspended, config, routes, day, state, daySchedule, haulType,
                 originalDate, repetitionOutboundLeg, repetitionReturnLeg>>

\* await apiClient.getRoutesForAirline and the empty-list check
FetchRoutes ==
  /\ pc = "fetch"
  /\ LET r == getRoutesForAirline(fnCall.cached, fnCall.provider)
         counted == [fnResult EXCEPT !.providerRequests = @ + r.requests]
     IN IF r.threw
          THEN /\ fnResult' = [Respond(500, r.message) EXCEPT
                                 !.providerRequests = counted.providerRequests]
               /\ routes' = routes
               /\ pc' = "responded"
        ELSE IF Len(r.routes) = 0
          THEN /\ fnResult' = [Respond(400, NoRoutesMessage) EXCEPT
                                 !.providerRequests = counted.providerRequests]
               /\ routes' = r.routes
               /\ pc' = "responded"
        ELSE /\ fnResult' = counted
             /\ routes' = r.routes
             /\ pc' = "generate"
  /\ UNCHANGED <<fnCall, suspended, config, day, state, daySchedule, haulType,
                 originalDate, repetitionOutboundLeg, repetitionReturnLeg>>

\* await scheduleGenerator.generateSchedule and the response
GenerateAndRespond ==
  /\ pc = "generate"
  /\ fnResult' =
       IF fnCall.generator = "schedule"
         THEN [Respond(200, "") EXCEPT !.schedule = TRUE,
                                       !.generatorCalls = @ + 1]
         ELSE [Respond(500, GeneratorErrorMessage) EXCEPT !.generatorCalls = @ + 1]
  /\ pc' = "responded"
  /\ UNCHANGED <<fnCall, suspended, config, routes, day, state, daySchedule, haulType,
                 originalDate, repetitionOutboundLeg, repetitionReturnLeg>>

EndpointNext ==
  \/ ValidateRequest
  \/ FetchRoutes
  \/ GenerateAndRespond

EndpointSpec == EndpointInit /\ [][EndpointNext]_vars

ProviderFailed ==
  /\ ~fnCall.validation.threw
  /\ fnCall.validation.errors = {}
  /\ fnCall.cached = "miss"
  /\ fnCall.provider = "fails"

ListReturned ==
  IF fnCall.cached # "miss" THEN fnCall.cached ELSE fnCall.provider

C22_NoRouteReuse ==
  ~config.repetition_mode =>
    \A i, j \in 1 .. Len(EmittedLegs) :
      EmittedLegs[i].route_id = EmittedLegs[j].route_id => i = j

\* C23: the returned schedule's legs, read in day order and then leg order,
\* start at base and each later leg departs from the airport at which the
\* preceding leg arrived.
C23_ConnectedItinerary ==
  pc = "done" =>
    /\ Len(EmittedLegs) > 0 => EmittedLegs[1].departure_airport = config.start_airport
    /\ \A i \in 2 .. Len(EmittedLegs) :
         EmittedLegs[i].departure_airport = EmittedLegs[i - 1].arrival_airport

FailureMessages ==
  { "No suitable routes available for first leg",
    "Cannot return to base",
    "Cannot schedule more flights today - outside operating hours",
    "Cannot complete return flight - outside operating hours" }

\* the step is a trip-loop iteration whose trip reported failure
TripFailed ==
  /\ pc = "tripLoop"
  /\ state.current_airport = config.start_airport
  /\ Len(daySchedule'.notes) = Len(daySchedule.notes) + 1
  /\ daySchedule'.notes[Len(daySchedule'.notes)] \in FailureMessages

\* C24: when planTrip or planRepeatedTrip reports failure, none of its legs
\* is emitted and current_airport, current_time, visited_routes and the
\* airport visit counts are what they were before the trip was attempted.
C24_FailedTripNoTrace ==
  [][ TripFailed =>
        /\ daySchedule'.legs = daySchedule.legs
        /\ state'.future_legs = state.future_legs
        /\ state'.current_airport = state.current_airport
        /\ state'.current_time = state.current_time
        /\ state'.visited_routes = state.visited_routes
        /\ state'.visited_airports = state.visited_airports ]_vars

InterimReturnLeg == planReturnToBase(state, config, routes, NoHaul)

\* a day-loop iteration starts away from base with an away counter of 2 or
\* more, and planReturnToBase has a leg
InterimReturnFound ==
  /\ pc = "dayLoop"
  /\ day <= config.days
  /\ state.current_airport # config.start_airport
  /\ state.consecutive_days_away_from_base >= 2
  /\ InterimReturnLeg # NoLeg

\* C25: when the interim forced return finds a return leg, that leg is among
\* the legs of the schedule, and the day is built with the state at base and
\* the away counter at 0.
C25_InterimForcedReturn ==
  [][ InterimReturnFound =>
        /\ InterimReturnLeg \in PlannedLegs(state', daySchedule')
        /\ pc' = "tripLoop" =>
             /\ state'.current_airport = config.start_airport
             /\ state'.consecutive_days_away_from_base = 0 ]_vars

\* generateDailySchedule ends for a day whose last trip crossed midnight
CrossedDay ==
  /\ pc = "endDay"
  /\ Len(state.future_legs) > 0
  /\ Len(daySchedule.legs) > 0

\* C26: on a day-boundary crossing the emitted day's overnight_location is
\* the arrival airport of the last leg departing on that day, not the
\* airport where the spilled-over legs end.
C26_OvernightAtLastSameDayLeg ==
  [][ CrossedDay =>
        state'.generated_days[Len(state'.generated_days)].overnight_location
          = daySchedule.legs[Len(daySchedule.legs)].arrival_airport ]_vars

\* a day-loop iteration appends its day to the schedule
DayAppended ==
  /\ pc \in {"dayLoop", "endDay"}
  /\ day <= config.days
  /\ Len(state'.generated_days) = Len(state.generated_days) + 1

AppendedDay == state'.generated_days[Len(state'.generated_days)]

C28_RestBlockSet ==
  (/\ pc = "endDay"
   /\ haulType = "long"
   /\ LongLegCount(daySchedule.legs) > 0)
    => state.long_haul_block_until =
         state.current_time + 60 * config.minimum_rest_hours_between_long_haul

\* C29: selectHaulType always returns a haul type, and never long while the
\* rest block is active (current_time < long_haul_block_until), for every
\* combination of preference flags and weights, the fallback included.
C29_SelectHaulType ==
  (fnCall.op = "selectHaulType" /\ fnResult.done) =>
    /\ fnResult.value \in HaulTypes
    /\ (fnCall.block # NoTime /\ HaulCallState.current_time < fnCall.block)
         => fnResult.value # "long"

\* the fallback has answered a call with only long enabled and the block active
C29_Witness ==
  /\ fnCall.op = "selectHaulType"
  /\ fnResult.done
  /\ fnCall.preferences = LongOnly
  /\ HaulCallState.current_time < fnCall.block
  /\ fnResult.value \in {"short", "medium"}

\* C30: every leg of an emitted DaySchedule departs on that DaySchedule's
\* calendar date, for days planned by DailyScheduler, days built from
\* overflow legs and the forced-return day.
C30_LegsOnDayDate ==
  \A d \in 1 .. Len(state.generated_days) :
    \A i \in 1 .. Len(state.generated_days[d].legs) :
      DateOf(state.generated_days[d].legs[i].departure_time)
        = state.generated_days[d].date

\* C31: the days of the returned schedule carry consecutive calendar dates,
\* the forced-return day and the final overflow day included.
C31_ConsecutiveDates ==
  pc = "done" =>
    \A d \in 2 .. Len(state.generated_days) :
      state.generated_days[d].date = state.generated_days[d - 1].date + 1

\* C32: when the day loop ends away from base and an enabled direct route to
\* base exists, exactly one forced-return day is appended: its single leg is
\* the shortest such route and departs on the calendar day after the last
\* day of the loop, at operating-hours start plus 60 minutes; the day's
\* overnight_location is base and its note is "Forced return to base". When
\* no such route exists nothing is appended.
C32_FinalReturn ==
  [][ (pc = "dayLoop" /\ pc' = "done"
       /\ state.current_airport # config.start_airport)
      => LET before == state.generated_days
             after == state'.generated_days
             rs == { r \in Range(routes) :
                       /\ r.departure_iata = state.current_airport
                       /\ r.arrival_iata = config.start_airport
                       /\ config.haul_preferences[classifyRoute(r.duration_min)] }
             ds == after[Len(after)]
         IN IF rs = {} THEN after = before
            ELSE /\ Len(after) = Len(before) + 1
                 /\ SubSeq(after, 1, Len(before)) = before
                 /\ Len(ds.legs) = 1
                 /\ \E r \in rs :
                      /\ ds.legs[1].route_id = r.route_id
                      /\ \A q \in rs : r.duration_min <= q.duration_min
                 /\ ds.legs[1].arrival_airport = config.start_airport
                 /\ ds.legs[1].departure_time =
                      (before[Len(before)].date + 1) * MinutesPerDay
                        + config.operating_hours.start + ForcedReturnDelay
                 /\ ds.overnight_location = config.start_airport
                 /\ ds.notes = <<"Forced return to base">> ]_vars

\* C33: every emitted day without legs carries at least one note, and every
\* emitted day names an overnight location.
C33_EmptyDayExplained ==
  \A d \in 1 .. Len(state.generated_days) :
    LET ds == state.generated_days[d]
    IN /\ Len(ds.legs) = 0 => Len(ds.notes) >= 1
       /\ ds.overnight_location \in Airports

\* a finished run that emitted a day without legs and a day with legs
C33_Witness ==
  /\ pc = "done"
  /\ \E d \in 1 .. Len(state.generated_days) :
        Len(state.generated_days[d].legs) = 0
  /\ \E d \in 1 .. Len(state.generated_days) :
        Len(state.generated_days[d].legs) > 0

\* C34: in strict repetition-bias mode (bias 1, non-empty preferred set),
\* when a candidate that passes the operating-hours filter lands at a
\* preferred airport selectLeg returns a leg to a preferred airport for every
\* draw; when none does the draw is made with weight 1.0 on every candidate.
C34_StrictMode ==
  LET validCandidates ==
        SelectSeq(fnCall.table, LAMBDA r :
          /\ r.departure_iata = SelectLegCallState.current_airport
          /\ classifyRoute(r.duration_min) = "short"
          /\ AirlineMatches(r, SelectLegCallConfig)
          /\ isWithinOperatingHours(
               fnCall.time + SelectLegCallConfig.turnaround_time_minutes,
               SelectLegCallConfig.operating_hours))
      unitWeights == [i \in 1 .. Len(validCandidates) |->
                        [item |-> validCandidates[i], weight |-> WeightUnit]]
  IN (/\ fnCall.op = "selectLeg" /\ fnResult.done
      /\ fnCall.bias = StrictBias /\ fnCall.preferred # {}
      /\ Len(validCandidates) > 0) =>
       IF \E i \in 1 .. Len(validCandidates) :
            validCandidates[i].arrival_iata \in fnCall.preferred
       THEN /\ fnResult.value # NoLeg
            /\ fnResult.value.arrival_airport \in fnCall.preferred
       ELSE /\ fnResult.value # NoLeg
            /\ fnResult.value.route_id =
                 weightedRandomSelection(unitWeights, fnCall.draw).route_id

\* the weight the stated precedence gives route r in the current applyBiasing
\* call, in units of WeightUnit / 10^4: the product of the preferred-airport,
\* country, region and novelty factors, each in tenths
StatedWeight(r) ==
  LET b == fnCall.bias
      isPreferred == r.arrival_iata \in fnCall.preferred
      preferredFactor == IF fnCall.preferred # {} /\ b > 0
                         THEN IF isPreferred THEN 10 + b
                              ELSE IF b = StrictBias THEN 0 ELSE 10
                         ELSE 10
      countryFactor == IF b < StrictBias
                          /\ r.arrival_country \in BiasCallConfig.preferred_countries
                       THEN 14 ELSE 10
      regionFactor == IF b < StrictBias
                         /\ getContinent(r.arrival_country)
                              \in BiasCallConfig.preferred_regions
                      THEN 12 ELSE 10
      noveltyFactor == IF ~isPreferred THEN Max(3, 10 - fnCall.visits) ELSE 10
  IN preferredFactor * countryFactor * regionFactor * noveltyFactor

\* C35 as stated: the weight of every route returned by applyBiasing is the
\* product of the preferred-airport factor ((1+b) at a preferred airport, 0
\* elsewhere when b = 1), the country and region multipliers (only when
\* b < 1) and the novelty factor (only away from preferred airports), and is
\* never negative.
C35_Original ==
  (fnCall.op = "applyBiasing" /\ fnResult.done) =>
    \A i \in 1 .. Len(fnCall.list) :
      /\ fnResult.value[i].weight * 10000 = WeightUnit * StatedWeight(fnCall.list[i])
      /\ fnResult.value[i].weight >= 0

\* C35 amended: the same, except that in strict mode with a preferred set no
\* route of the list lands in, every route gets weight 1.0.
C35_Amended ==
  (fnCall.op = "applyBiasing" /\ fnResult.done) =>
    LET noRouteToPreferred ==
          /\ fnCall.preferred # {}
          /\ fnCall.bias = StrictBias
          /\ \A i \in 1 .. Len(fnCall.list) :
                fnCall.list[i].arrival_iata \notin fnCall.preferred
    IN \A i \in 1 .. Len(fnCall.list) :
         /\ fnResult.value[i].weight * 10000 =
              IF noRouteToPreferred THEN WeightUnit * 10000
              ELSE WeightUnit * StatedWeight(fnCall.list[i])
         /\ fnResult.value[i].weight >= 0

\* a strict-mode call on a list with one preferred and one other destination
C35_Witness ==
  /\ fnCall.op = "applyBiasing" /\ fnResult.done
  /\ fnCall.bias = StrictBias
  /\ fnCall.preferred = {"X"}
  /\ fnCall.list = <<R3, R1>>
  /\ fnCall.visits = 2
  /\ fnResult.value[1].weight = 0
  /\ fnResult.value[2].weight = 2 * WeightUnit

\* the configuration with destination_repetition_bias switched off and, when
\* the bias was 1, without preferred countries and regions
WithoutBiasGate(cfg) ==
  IF cfg.destination_repetition_bias < StrictBias
  THEN [cfg EXCEPT !.destination_repetition_bias = 0]
  ELSE [cfg EXCEPT !.destination_repetition_bias = 0,
                   !.preferred_countries = {},
                   !.preferred_regions = {}]

\* C36 as stated: during a run the preferred-airport set never gains an
\* element, and destination_repetition_bias changes no selection weight.
C36_Original ==
  /\ state.preferred_airports = InitialPreferredAirports
  /\ \A i \in 1 .. Len(routes) :
        RouteWeight(routes[i], config, state.visited_airports,
                    state.preferred_airports)
          = RouteWeight(routes[i], [config EXCEPT !.destination_repetition_bias = 0],
                        state.visited_airports, state.preferred_airports)

\* C36 amended: during a run the preferred-airport set never gains an
\* element, so no route is boosted or zeroed for its destination; the bias
\* changes selection weights only by switching the country and region
\* multipliers off when it equals 1.
C36_Amended ==
  /\ state.preferred_airports = InitialPreferredAirports
  /\ \A i \in 1 .. Len(routes) :
        RouteWeight(routes[i], config, state.visited_airports,
                    state.preferred_airports)
          = RouteWeight(routes[i], WithoutBiasGate(config),
                        state.visited_airports, state.preferred_airports)

\* a finished run with bias 1 that flew a first leg of a day
C36_Witness ==
  /\ pc = "done"
  /\ config.destination_repetition_bias = StrictBias
  /\ Len(EmittedLegs) > 0

\* C37: when an airline IATA code is configured, selectLeg keeps a route only
\* if the route's airline code equals it; the case-insensitive name match
\* is used only when no code is configured.
C37_AirlineFilter ==
  (fnCall.op = "selectLeg" /\ fnResult.done /\ fnResult.value # NoLeg) =>
    LET selectedRoute == CHOOSE r \in Range(fnCall.table) :
                           r.route_id = fnResult.value.route_id
    IN IF fnCall.airline.iata # ""
       THEN selectedRoute.airline_iata = fnCall.airline.iata
       ELSE ToLower(selectedRoute.airline_name) = ToLower(fnCall.airline.name)

\* C38: every emitted leg carries the configured airline name and, when an
\* airline IATA code is configured, that code, whatever airline operates the
\* route the leg was built from.
C38_AirlineOverride ==
  \A i \in 1 .. Len(EmittedLegs) :
    /\ EmittedLegs[i].airline_name = config.airline_name
    /\ config.airline_iata # "" => EmittedLegs[i].airline_iata = config.airline_iata

\* a finished run that emitted a leg flown on another airline's route
C38_Witness ==
  /\ pc = "done"
  /\ \E i \in 1 .. Len(EmittedLegs) :
        \E r \in Range(routes) :
          /\ r.route_id = EmittedLegs[i].route_id
          /\ r.airline_iata # config.airline_iata
          /\ r.airline_name # config.airline_name

\* C39: findEarliestReturnFlight returns null at base or without a direct
\* route to base; otherwise it returns a minimum-duration direct route and the
\* earliest instant at or after current_time + turnaround whose time of day
\* is inside operating hours.
C39_EarliestReturn ==
  (fnCall.op = "findEarliestReturnFlight" /\ fnResult.done) =>
    LET routesToBase == { r \in Range(fnCall.list) :
                            r.departure_iata = fnCall.airport /\ r.arrival_iata = Base }
        turned == fnCall.time + IdleConfig.turnaround_time_minutes
        inside == { u \in turned .. (turned + MinutesPerDay) :
                      isWithinOperatingHours(u, IdleConfig.operating_hours) }
        earliest == CHOOSE u \in inside : \A v \in inside : u <= v
    IN IF fnCall.airport = Base \/ routesToBase = {}
       THEN fnResult.value = NoFlight
       ELSE /\ fnResult.value # NoFlight
            /\ fnResult.value.route \in routesToBase
            /\ \A r \in routesToBase :
                  fnResult.value.route.duration_min <= r.duration_min
            /\ fnResult.value.departureTime = earliest

====
